---- MODULE Spec2Model ----
(***************************************************************************)
(* weather-service: a model of main.go.                                    *)
(*                                                                         *)
(* Strings are TLA+ strings; a float64 is a record                         *)
(*   [k |-> "num", neg, m, d]   the value (-1)^neg * m / d  (d > 0)        *)
(*   [k |-> "inf", neg, ...]    +Inf / -Inf                                *)
(*   [k |-> "nan", ...]         NaN                                        *)
(* The decimal inputs drawn below are short, so the rational m/d and the   *)
(* float64 nearest to it compare and round alike.  The inputs contain no   *)
(* exponent ("1e5"), hexadecimal ("0x1p3"), underscore or IPv6 forms, and  *)
(* the parsers below reject the characters those forms would need.         *)
(***************************************************************************)
EXTENDS Integers, Sequences, FiniteSets, TLC

\* ---------------------------------------------------------------- bounds
MaxRawLen == 3
MaxTemp == 160
TempDen == 4
MaxPortLen == 2
MaxDescLen == 2

\* ------------------------------------------------------ program constants
KeyLen == 32
LatBound == 90
LonBound == 180
HotAbove == 24
ColdBelow == 10
MaxPort == 65535
StatusOK == 200
StatusBadRequest == 400
StatusInternalServerError == 500

\* the nil error
nil == "<nil>"

\* ---------------------------------------------------------------- strings
Char(s, i) == SubSeq(s, i, i)

From(s, i) == SubSeq(s, i, Len(s))

DigitChars == "0123456789"

IsDigit(c) == \E i \in 1..10 : Char(DigitChars, i) = c

DigitVal(c) == (CHOOSE i \in 1..10 : Char(DigitChars, i) = c) - 1

UpperChars == "ABCDEFGHIJKLMNOPQRSTUVWXYZ"

LowerChars == "abcdefghijklmnopqrstuvwxyz"

\* strconv.lower applied to a byte of the input
Lower(c) ==
  IF \E i \in 1..26 : Char(UpperChars, i) = c
  THEN Char(LowerChars, CHOOSE i \in 1..26 : Char(UpperChars, i) = c)
  ELSE c

IsSpace(c) == c \in {" ", "\t", "\n", "\r", "\f"}

RECURSIVE TrimLeft(_)
TrimLeft(s) ==
  IF s # "" /\ IsSpace(Head(s)) THEN TrimLeft(Tail(s)) ELSE s

RECURSIVE TrimRight(_)
TrimRight(s) ==
  IF s # "" /\ IsSpace(Char(s, Len(s))) THEN TrimRight(SubSeq(s, 1, Len(s) - 1)) ELSE s

\* strings.TrimSpace
TrimSpace(s) == TrimRight(TrimLeft(s))

RECURSIVE Pow10(_)
Pow10(k) == IF k = 0 THEN 1 ELSE 10 * Pow10(k - 1)

RECURSIVE Repeat(_, _)
Repeat(c, n) == IF n <= 0 THEN "" ELSE c \o Repeat(c, n - 1)

\* the number of leading decimal digits of s
RECURSIVE LeadDigits(_)
LeadDigits(s) ==
  IF s # "" /\ IsDigit(Head(s)) THEN 1 + LeadDigits(Tail(s)) ELSE 0

\* the value of a string of decimal digits
RECURSIVE DecVal(_)
DecVal(s) ==
  IF s = "" THEN 0 ELSE 10 * DecVal(SubSeq(s, 1, Len(s) - 1)) + DigitVal(Char(s, Len(s)))

\* the value of a string of decimal digits, saturating above every port number
RECURSIVE DecValSat(_)
DecValSat(s) ==
  IF s = "" THEN 0
  ELSE LET v == 10 * DecValSat(SubSeq(s, 1, Len(s) - 1)) + DigitVal(Char(s, Len(s)))
       IN  IF v > 1000 * 1000 THEN 1000 * 1000 ELSE v

\* s occurs in t
Contains(t, s) ==
  \E i \in 1..(Len(t) - Len(s) + 1) : SubSeq(t, i, i + Len(s) - 1) = s

\* ----------------------------------------------------------------- floats
Num(neg, m, d) == [k |-> "num", neg |-> neg, m |-> m, d |-> d]

Inf(neg) == [k |-> "inf", neg |-> neg, m |-> 0, d |-> 1]

NaN == [k |-> "nan", neg |-> FALSE, m |-> 0, d |-> 1]

Zero == Num(FALSE, 0, 1)

\* the float of the integer n divided by d
Rat(n, d) == IF n < 0 THEN Num(TRUE, -n, d) ELSE Num(FALSE, n, d)

Signed(f) == IF f.neg THEN -f.m ELSE f.m

\* f < c and f > c for a float f and an integer c; false when f is NaN
FLt(f, c) ==
  CASE f.k = "nan" -> FALSE
    [] f.k = "inf" -> f.neg
    [] OTHER -> Signed(f) < c * f.d

FGt(f, c) ==
  CASE f.k = "nan" -> FALSE
    [] f.k = "inf" -> ~f.neg
    [] OTHER -> Signed(f) > c * f.d

\* one value for each decimal: trailing zeros of the fraction are dropped
RECURSIVE Normal(_, _, _)
Normal(neg, m, d) ==
  IF d > 1 /\ m % 10 = 0 THEN Normal(neg, m \div 10, d \div 10) ELSE Num(neg, m, d)

\* n/d rounded to the nearest integer, ties to even (n >= 0, d > 0)
RoundHalfEven(n, d) ==
  LET q == n \div d
      r == n % d
  IN  IF 2 * r < d THEN q
      ELSE IF 2 * r > d THEN q + 1
      ELSE IF q % 2 = 0 THEN q ELSE q + 1

\* fmt verb %.0f
Fmt0(f) ==
  CASE f.k = "nan" -> "NaN"
    [] f.k = "inf" -> IF f.neg THEN "-Inf" ELSE "+Inf"
    [] OTHER -> (IF f.neg THEN "-" ELSE "") \o ToString(RoundHalfEven(f.m, f.d))

\* fmt verb %f (six decimals)
FmtF(f) ==
  CASE f.k = "nan" -> "NaN"
    [] f.k = "inf" -> IF f.neg THEN "-Inf" ELSE "+Inf"
    [] OTHER ->
       LET ip == f.m \div f.d
           r  == f.m % f.d
           fr == IF 1000000 % f.d = 0 THEN r * (1000000 \div f.d)
                 ELSE RoundHalfEven(r * 1000000, f.d)
           ci == IF fr = 1000000 THEN ip + 1 ELSE ip
           cf == IF fr = 1000000 THEN 0 ELSE fr
           fs == ToString(cf)
       IN  (IF f.neg THEN "-" ELSE "") \o ToString(ci) \o "."
             \o Repeat("0", 6 - Len(fs)) \o fs

\* ----------------------------------------------------- strconv.ParseFloat
RECURSIVE commonPrefixLenIgnoreCase(_, _)
commonPrefixLenIgnoreCase(s, prefix) ==
  IF s = "" \/ prefix = "" THEN 0
  ELSE IF Lower(Head(s)) = Head(prefix)
       THEN 1 + commonPrefixLenIgnoreCase(Tail(s), Tail(prefix))
       ELSE 0

\* strconv.special: "inf", "infinity" (optionally signed) and "nan"
special(s) ==
  LET signed == s # "" /\ Head(s) \in {"+", "-"}
      neg    == s # "" /\ Head(s) = "-"
      t      == IF signed THEN Tail(s) ELSE s
      nsign  == IF signed THEN 1 ELSE 0
      pn     == commonPrefixLenIgnoreCase(t, "infinity")
      n      == IF 3 < pn /\ pn < 8 THEN 3 ELSE pn
  IN  IF s = "" THEN [f |-> Zero, n |-> 0, ok |-> FALSE]
      ELSE IF signed \/ Head(s) \in {"i", "I"}
      THEN IF n = 3 \/ n = 8
           THEN [f |-> Inf(neg), n |-> nsign + n, ok |-> TRUE]
           ELSE [f |-> Zero, n |-> 0, ok |-> FALSE]
      ELSE IF Head(s) \in {"n", "N"} /\ commonPrefixLenIgnoreCase(s, "nan") = 3
      THEN [f |-> NaN, n |-> 3, ok |-> TRUE]
      ELSE [f |-> Zero, n |-> 0, ok |-> FALSE]

\* strconv.readFloat, the digit loop: digits with at most one point
RECURSIVE scanMantissa(_, _, _, _, _, _)
scanMantissa(s, i, mant, frac, sawdot, sawdigits) ==
  LET stop == [i |-> i, mant |-> mant, frac |-> frac, sawdigits |-> sawdigits]
  IN  IF i > Len(s) THEN stop
      ELSE IF Char(s, i) = "."
      THEN IF sawdot THEN stop
           ELSE scanMantissa(s, i + 1, mant, frac, TRUE, sawdigits)
      ELSE IF IsDigit(Char(s, i))
      THEN scanMantissa(s, i + 1, 10 * mant + DigitVal(Char(s, i)),
                        IF sawdot THEN frac + 1 ELSE frac, sawdot, TRUE)
      ELSE stop

\* strconv.readFloat: optional sign, then the mantissa
readFloat(s) ==
  LET signed == s # "" /\ Head(s) \in {"+", "-"}
      neg    == s # "" /\ Head(s) = "-"
      r      == scanMantissa(s, IF signed THEN 2 ELSE 1, 0, 0, FALSE, FALSE)
  IN  IF s = "" \/ ~r.sawdigits THEN [f |-> Zero, n |-> 0, ok |-> FALSE]
      ELSE [f |-> Normal(neg, r.mant, Pow10(r.frac)), n |-> r.i - 1, ok |-> TRUE]

\* strconv.ParseFloat(s, 64): the whole string must be consumed
ParseFloat(s) ==
  LET sp == special(s)
      rf == readFloat(s)
      r  == IF sp.ok THEN sp ELSE rf
  IN  IF r.ok /\ r.n = Len(s) THEN [f |-> r.f, err |-> nil]
      ELSE [f |-> Zero, err |-> "strconv.ParseFloat: parsing \"" \o s \o "\": invalid syntax"]

\* ---------------------------------------------------------- the validators
validateLatitude(raw) ==
  LET p == ParseFloat(raw)
  IN  IF p.err # nil
      THEN [v |-> Zero, err |-> "invalid latitude format: " \o raw]
      ELSE IF FLt(p.f, -LatBound) \/ FGt(p.f, LatBound)
      THEN [v |-> Zero, err |-> "latitude out of range (-90 to 90 degrees): " \o FmtF(p.f)]
      ELSE [v |-> p.f, err |-> nil]

validateLongitude(raw) ==
  LET p == ParseFloat(raw)
  IN  IF p.err # nil
      THEN [v |-> Zero, err |-> "invalid longitude format: " \o raw]
      ELSE IF FLt(p.f, -LonBound) \/ FGt(p.f, LonBound)
      THEN [v |-> Zero, err |-> "longitude out of range (-180 to 180 degrees): " \o FmtF(p.f)]
      ELSE [v |-> p.f, err |-> nil]

\* ------------------------------------------------------------- getAPIKey
HexLower == {"a", "b", "c", "d", "e", "f", "0", "1", "2", "3", "4", "5", "6", "7", "8", "9"}

MatchString_unanchored(s) ==
  Len(s) >= KeyLen /\ \A i \in 1..KeyLen : Char(s, i) \in HexLower

\* regexp ^[a-f0-9]{32}$
MatchString(s) ==
  Len(s) = KeyLen /\ \A i \in 1..Len(s) : Char(s, i) \in HexLower

\* env is the value os.Getenv("OPENWEATHER_API_KEY") returns ("" when unset)
getAPIKey(env) ==
  LET apiKey == TrimSpace(env)
  IN  IF apiKey = ""
      THEN [key |-> apiKey, err |-> "OPENWEATHER_API_KEY is not set"]
      ELSE IF ~MatchString(apiKey)
      THEN [key |-> apiKey, err |-> "API key failed pattern check"]
      ELSE [key |-> apiKey, err |-> nil]

\* ------------------------------------------------------------ classifier
\* (celsius * 9.0 / 5.0) + 32.0
celsiusToFahrenheit(celsius) ==
  CASE celsius.k = "nan" -> NaN
    [] celsius.k = "inf" -> celsius
    [] OTHER ->
       LET n == 9 * Signed(celsius) + 32 * 5 * celsius.d
       IN  IF n = 0 THEN Num(celsius.neg /\ celsius.m # 0, 0, 5 * celsius.d)
           ELSE Rat(n, 5 * celsius.d)

getTemperature_atleast(temp) ==
  IF ~FLt(temp, HotAbove) /\ temp.k # "nan"
  THEN "Hot (" \o Fmt0(celsiusToFahrenheit(temp)) \o "F / " \o Fmt0(temp) \o "C)"
  ELSE IF FLt(temp, ColdBelow)
  THEN "Cold (" \o Fmt0(celsiusToFahrenheit(temp)) \o "F / " \o Fmt0(temp) \o "C)"
  ELSE "Moderate (" \o Fmt0(celsiusToFahrenheit(temp)) \o "F / " \o Fmt0(temp) \o "C)"

getTemperature(temp) ==
  IF FGt(temp, HotAbove)
  THEN "Hot (" \o Fmt0(celsiusToFahrenheit(temp)) \o "F / " \o Fmt0(temp) \o "C)"
  ELSE IF FLt(temp, ColdBelow)
  THEN "Cold (" \o Fmt0(celsiusToFahrenheit(temp)) \o "F / " \o Fmt0(temp) \o "C)"
  ELSE "Moderate (" \o Fmt0(celsiusToFahrenheit(temp)) \o "F / " \o Fmt0(temp) \o "C)"

\* --------------------------------------------- GetHttpListenAddressAndPort
\* net.parseIPv4: k decimal fields of at most 255, no leading zero, dots between
RECURSIVE parseIPv4Fields(_, _)
parseIPv4Fields(s, k) ==
  LET c    == LeadDigits(s)
      rest == From(s, c + 1)
  IN  IF c = 0 \/ c > 3 \/ DecVal(SubSeq(s, 1, c)) > 255 \/ (c > 1 /\ Head(s) = "0")
      THEN FALSE
      ELSE IF k = 1 THEN rest = ""
      ELSE rest # "" /\ Head(rest) = "." /\ parseIPv4Fields(Tail(rest), k - 1)

\* net.ParseIP(s) # nil, for the dotted-decimal literals drawn here
ParseIP(s) == Contains(s, ".") /\ ~Contains(s, ":") /\ parseIPv4Fields(s, 4)

\* strconv.Atoi: an optional sign and decimal digits only
Atoi(s) ==
  LET signed == s # "" /\ Head(s) \in {"+", "-"}
      t      == IF signed THEN Tail(s) ELSE s
  IN  IF t = "" \/ LeadDigits(t) # Len(t)
      THEN [n |-> 0, err |-> "strconv.Atoi: parsing \"" \o s \o "\": invalid syntax"]
      ELSE [n |-> IF Head(s) = "-" THEN -DecValSat(t) ELSE DecValSat(t), err |-> nil]

GetHttpListenAddressAndPort_portfirst(rawAddr, rawPort) ==
  LET a == Atoi(rawPort)
  IN  IF TrimSpace(rawPort) = ""
      THEN [addr |-> "", err |-> "missing port (HTTP_LISTEN_PORT not set)"]
      ELSE IF TrimSpace(rawAddr) = ""
      THEN [addr |-> "", err |-> "missing IP address (HTTP_LISTEN_ADDR not set)"]
      ELSE IF ~ParseIP(rawAddr)
      THEN [addr |-> "", err |-> "invalid IP address: " \o rawAddr]
      ELSE IF a.err # nil \/ a.n < 1 \/ a.n > MaxPort
      THEN [addr |-> "", err |-> "invalid port number: " \o rawPort]
      ELSE [addr |-> rawAddr \o ":" \o ToString(a.n), err |-> nil]

\* rawAddr, rawPort are what os.Getenv returns ("" when unset)
GetHttpListenAddressAndPort(rawAddr, rawPort) ==
  LET a == Atoi(rawPort)
  IN  IF TrimSpace(rawAddr) = ""
      THEN [addr |-> "", err |-> "missing IP address (HTTP_LISTEN_ADDR not set)"]
      ELSE IF TrimSpace(rawPort) = ""
      THEN [addr |-> "", err |-> "missing port (HTTP_LISTEN_PORT not set)"]
      ELSE IF ~ParseIP(rawAddr)
      THEN [addr |-> "", err |-> "invalid IP address: " \o rawAddr]
      ELSE IF a.err # nil \/ a.n < 1 \/ a.n > MaxPort
      THEN [addr |-> "", err |-> "invalid port number: " \o rawPort]
      ELSE [addr |-> rawAddr \o ":" \o ToString(a.n), err |-> nil]

\* ----------------------------------------------------------- fmt, no args
FlagChars == {"#", "0", "+", "-", " "}

RECURSIVE skipFlags(_)
skipFlags(s) == IF s # "" /\ Head(s) \in FlagChars THEN skipFlags(Tail(s)) ELSE s

\* width, then an optional precision
skipWidthPrec(s) ==
  LET t == From(s, LeadDigits(s) + 1)
  IN  IF t # "" /\ Head(t) = "."
      THEN From(t, LeadDigits(Tail(t)) + 2)
      ELSE t

\* fmt.Fprintf(w, format) with no operands: what doPrintf writes
RECURSIVE Fprintf(_)
Fprintf(format) ==
  IF format = "" THEN ""
  ELSE IF Head(format) # "%" THEN Head(format) \o Fprintf(Tail(format))
  ELSE LET t == skipWidthPrec(skipFlags(Tail(format)))
       IN  IF t = "" THEN "%!(NOVERB)"
           ELSE IF Head(t) = "%" THEN "%" \o Fprintf(Tail(t))
           ELSE "%!" \o Head(t) \o "(MISSING)" \o Fprintf(Tail(t))

\* ------------------------------------------------------------ the upstream
\* A body is a JSON document or not; an object may lack "weather" or "main".
Garbage == [valid |-> FALSE, hasWeather |-> FALSE, weather |-> <<>>, hasMain |-> FALSE, temp |-> Zero]

Object(hasWeather, ws, hasMain, t) ==
  [valid |-> TRUE, hasWeather |-> hasWeather, weather |-> ws, hasMain |-> hasMain, temp |-> t]

\* json.NewDecoder(body).Decode(&weatherData): absent fields keep their zero value
Decode(doc) ==
  IF ~doc.valid
  THEN [data |-> [Weather |-> <<>>, Temperature |-> Zero],
        err  |-> "invalid character '<' looking for beginning of value"]
  ELSE [data |-> [Weather     |-> IF doc.hasWeather
                                  THEN [i \in 1..Len(doc.weather) |-> [Description |-> doc.weather[i]]]
                                  ELSE <<>>,
                  Temperature |-> IF doc.hasMain THEN doc.temp ELSE Zero],
        err  |-> nil]

\* the error http.Get returns when the transport fails
TransportError == "dial tcp: lookup api.openweathermap.org: no such host"

GetError(u) == "Get \"" \o u \o "\": " \o TransportError

NoResponse == [kind |-> "none", status |-> 0, body |-> Garbage]

\* ----------------------------------------------------------------- inputs
RECURSIVE StringsUpTo(_, _)
StringsUpTo(A, n) ==
  IF n = 0 THEN {""}
  ELSE LET P == StringsUpTo(A, n - 1) IN P \cup {s \o c : s \in P, c \in A}

ValidKey == "abcdef0123456789abcdef0123456789"

Keys == {"", "  ", ValidKey, " " \o ValidKey \o "\n", "xyz", "def0123456789abcdef0123456789xyz"}

LatInputs == {"", "abc", "90", "90.1", "-45.5", "37.7749"}

LonInputs == {"", "abc", "-180", "181", "12.25"}

DescAlphabet == {"a", "%", " ", "5"}

Descriptions == StringsUpTo(DescAlphabet, MaxDescLen) \cup {"light rain", "100% humidity"}

Temperatures == {Rat(25, 1), Rat(10, 1), Rat(-4, 10)}

Documents ==
  {Garbage, Object(FALSE, <<>>, FALSE, Zero)}
    \cup {Object(TRUE, <<>>, TRUE, t) : t \in Temperatures}
    \cup {Object(TRUE, <<d>>, TRUE, t) : d \in Descriptions, t \in Temperatures}
    \cup {Object(TRUE, <<d, "mist">>, TRUE, t) : d \in {"light rain"}, t \in Temperatures}

UpstreamStatuses == {200, 401, 500}

Replies ==
  {[kind |-> "error", status |-> 0, body |-> Garbage]}
    \cup {[kind |-> "response", status |-> st, body |-> doc] : st \in UpstreamStatuses, doc \in Documents}

\* ------------------------------------------------------------------ state
VARIABLES
  env,          \* the value of OPENWEATHER_API_KEY
  pc,           \* where the handler of the current request is
  route,        \* "none", "/health" or "/weather"
  qLat, qLon,   \* r.URL.Query().Get("lat"), .Get("lon")
  apiKey, err, latitude, longitude, url,   \* locals of weatherHandler
  resp,         \* what http.Get returned
  weatherData,  \* the decoded WeatherData
  w,            \* the ResponseWriter: what the client has been sent
  outbound,     \* the URLs requested from the provider during this request
  panicked,     \* the handler goroutine panicked
  steps,        \* the steps the handler has run, in order
  logged,       \* the lines written to the server log during this request
  fn, arg, ret, \* a direct call of one function: its name, operand and result
  called        \* that call has returned

vars == <<env, pc, route, qLat, qLon, apiKey, err, latitude, longitude, url, resp,
          weatherData, w, outbound, panicked, steps, logged, fn, arg, ret, called>>

callVars == <<fn, arg, ret, called>>

serverVars == <<env, pc, route, qLat, qLon, apiKey, err, latitude, longitude, url, resp,
                weatherData, w, outbound, panicked, steps, logged>>

NothingSent == [written |-> FALSE, status |-> 0, contentType |-> "", body |-> ""]

NoData == [Weather |-> <<>>, Temperature |-> Zero]

Idle ==
  /\ pc = "idle" /\ route = "none" /\ qLat = "" /\ qLon = ""
  /\ apiKey = "" /\ err = nil /\ latitude = Zero /\ longitude = Zero /\ url = ""
  /\ resp = NoResponse /\ weatherData = NoData /\ w = NothingSent
  /\ outbound = <<>> /\ panicked = FALSE /\ steps = <<>> /\ logged = <<>>

NoCall == fn = "none" /\ arg = "" /\ ret = "" /\ called = FALSE

Init == env \in Keys /\ Idle /\ NoCall

\* http.Error(w, msg, code)
httpError(msg, code) ==
  [written |-> TRUE, status |-> code, contentType |-> "text/plain; charset=utf-8",
   body |-> msg \o "\n"]

\* ------------------------------------------------------- the HTTP handlers
\* a request arrives; the locals of the handler are fresh
Accept(path, lat, lon) ==
  /\ pc \in {"idle", "done"}
  /\ route' = path /\ qLat' = lat /\ qLon' = lon
  /\ apiKey' = "" /\ err' = nil /\ latitude' = Zero /\ longitude' = Zero /\ url' = ""
  /\ resp' = NoResponse /\ weatherData' = NoData /\ w' = NothingSent
  /\ outbound' = <<>> /\ panicked' = FALSE /\ steps' = <<>> /\ logged' = <<>>
  /\ UNCHANGED <<env, callVars>>

RequestWeather ==
  \E lat \in LatInputs, lon \in LonInputs :
    Accept("/weather", lat, lon) /\ pc' = "credential"

RequestHealth == Accept("/health", "", "") /\ pc' = "health"

healthCheck ==
  /\ pc = "health"
  /\ w' = [written |-> TRUE, status |-> StatusOK,
           contentType |-> "text/plain; charset=utf-8", body |-> "ok"]
  /\ pc' = "done"
  /\ UNCHANGED <<env, route, qLat, qLon, apiKey, err, latitude, longitude, url, resp,
                 weatherData, outbound, panicked, steps, logged, callVars>>

\* apiKey, err := getAPIKey(); if apiKey == "" { 500 }
LoadCredential ==
  /\ pc = "credential"
  /\ LET r == getAPIKey(env)
     IN  /\ apiKey' = r.key
         /\ err' = r.err
         /\ IF r.key = ""
            THEN /\ w' = httpError("invalid API key", StatusInternalServerError)
                 /\ pc' = "done"
            ELSE /\ w' = w
                 /\ pc' = "latitude"
  /\ steps' = Append(steps, "credential")
  /\ UNCHANGED <<env, route, qLat, qLon, latitude, longitude, url, resp, weatherData,
                 outbound, panicked, logged, callVars>>

ValidateLat ==
  /\ pc = "latitude"
  /\ LET r == validateLatitude(qLat)
     IN  /\ latitude' = r.v
         /\ err' = r.err
         /\ IF r.err # nil
            THEN /\ logged' = Append(logged, "input error: " \o r.err)
                 /\ w' = httpError("Invalid latitude", StatusBadRequest)
                 /\ pc' = "done"
            ELSE /\ logged' = logged
                 /\ w' = w
                 /\ pc' = "longitude"
  /\ steps' = Append(steps, "latitude")
  /\ UNCHANGED <<env, route, qLat, qLon, apiKey, longitude, url, resp, weatherData,
                 outbound, panicked, callVars>>

ValidateLon ==
  /\ pc = "longitude"
  /\ LET r == validateLongitude(qLon)
     IN  /\ longitude' = r.v
         /\ err' = r.err
         /\ IF r.err # nil
            THEN /\ logged' = Append(logged, "input error: " \o r.err)
                 /\ w' = httpError("Invalid longitude", StatusBadRequest)
                 /\ pc' = "done"
            ELSE /\ logged' = logged
                 /\ w' = w
                 /\ pc' = "fetch"
  /\ steps' = Append(steps, "longitude")
  /\ UNCHANGED <<env, route, qLat, qLon, apiKey, latitude, url, resp, weatherData,
                 outbound, panicked, callVars>>

RequestURL(lat, lon, key) ==
  "https://api.openweathermap.org/data/2.5/weather?lat=" \o FmtF(lat)
    \o "&lon=" \o FmtF(lon) \o "&units=metric&appid=" \o key

\* url := Sprintf(...); resp, err := http.Get(url); if err != nil { 500 }
HttpGet ==
  /\ pc = "fetch"
  /\ LET u == RequestURL(latitude, longitude, apiKey)
     IN  /\ url' = u
         /\ outbound' = Append(outbound, u)
         /\ \E reply \in Replies :
              /\ resp' = reply
              /\ IF reply.kind = "error"
                 THEN /\ err' = GetError(u)
                      /\ w' = httpError(GetError(u), StatusInternalServerError)
                      /\ pc' = "done"
                 ELSE /\ err' = nil
                      /\ w' = w
                      /\ pc' = "decode"
  /\ steps' = Append(steps, "fetch")
  /\ UNCHANGED <<env, route, qLat, qLon, apiKey, latitude, longitude, weatherData,
                 panicked, logged, callVars>>

\* if err := json.NewDecoder(resp.Body).Decode(&weatherData); err != nil { 500 }
DecodeBody ==
  /\ pc = "decode"
  /\ LET r == Decode(resp.body)
     IN  /\ weatherData' = r.data
         /\ IF r.err # nil
            THEN /\ w' = httpError(r.err, StatusInternalServerError)
                 /\ pc' = "done"
            ELSE /\ w' = w
                 /\ pc' = "respond"
  /\ steps' = Append(steps, "decode")
  /\ UNCHANGED <<env, route, qLat, qLon, apiKey, err, latitude, longitude, url, resp,
                 outbound, panicked, logged, callVars>>

\* weatherData.Weather[0] panics on an empty list; otherwise classify and write
Respond ==
  /\ pc = "respond"
  /\ IF Len(weatherData.Weather) = 0
     THEN /\ panicked' = TRUE
          /\ w' = w
          /\ logged' = Append(logged, "http: panic serving: runtime error: index out of range [0] with length 0")
     ELSE LET weatherCondition == weatherData.Weather[1].Description
              temperatureDesc  == getTemperature(weatherData.Temperature)
              httpResponse     == "Current Temperature:\n  Weather     : " \o weatherCondition
                                    \o "\n  Temperature : " \o temperatureDesc
          IN  /\ panicked' = FALSE
              /\ w' = [written |-> TRUE, status |-> StatusOK, contentType |-> "text/plain",
                       body |-> Fprintf(httpResponse)]
              /\ logged' = logged
  /\ pc' = "done"
  /\ steps' = Append(steps, "classify")
  /\ UNCHANGED <<env, route, qLat, qLon, apiKey, err, latitude, longitude, url, resp,
                 weatherData, outbound, callVars>>

Next ==
  \/ RequestWeather
  \/ RequestHealth
  \/ healthCheck
  \/ LoadCredential
  \/ ValidateLat
  \/ ValidateLon
  \/ HttpGet
  \/ DecodeBody
  \/ Respond

Spec == Init /\ [][Next]_vars

\* ------------------------------------------- the functions called directly
RawAlphabet == {"-", "+", ".", "0", "1", "8", "9", "N", "a"}

RawInputs ==
  StringsUpTo(RawAlphabet, MaxRawLen)
    \cup {"37.7749", "-90.0", "90.0", "100.0", "90.1", "-90.1", "180.0", "-180", "180.1",
          "-181", "-200.000000", "200.000000", "180.100000", "Inf", "+Inf", "-Inf",
          "inf", "infinity", "-Infinity", "infi", "nan", "NAN", "+NaN", "NaN1",
          "invalid_latitude", "non-numeric-longitude", " 1", "1 ", "1,5"}

KeyChars == {"a", "f", "0", "9", "g", "A", " "}

KeyPads == {"", " ", "\n\t"}

KeyInputs ==
  {"", " ", "\t\n", "xyz", ValidKey, "def0123456789abcdef0123456789xyz"}
    \cup {l \o Repeat("a", i - 1) \o c \o Repeat("0", n - i) \o r :
            l \in KeyPads, r \in KeyPads, c \in KeyChars,
            n \in (KeyLen - 1)..(KeyLen + 1), i \in {1, 2, KeyLen - 1, KeyLen, KeyLen + 1}}

AddrFields == {"1", "255", "256", ""}

AddrInputs ==
  {a \o "." \o b \o "." \o c \o "." \o d : a, b, c, d \in AddrFields}
    \cup {"", " ", "127.0.0.1", "0.0.0.0", " 127.0.0.1", "127.0.0.1 ", "1.2.3", "1.2.3.4.5",
          "invalid_address", "localhost", "1.2.3.4000"}

PortAlphabet == {"0", "1", "9", "+", "-"}

PortInputs ==
  StringsUpTo(PortAlphabet, MaxPortLen)
    \cup {" ", "8080", "65535", "65536", "+8080", "08080", "-8080", "invalid_port",
          " 8080", "8080 ", "80 80", "99999", "8080.0", "4294967297"}

TemperatureInputs == {Rat(n, TempDen) : n \in (-MaxTemp)..MaxTemp}

\* the call fn(arg) returns
Call(name, result) ==
  /\ fn = name /\ ~called
  /\ called' = TRUE /\ ret' = result
  /\ UNCHANGED <<fn, arg>>
  /\ UNCHANGED serverVars

CallGetAPIKey == Call("getAPIKey", getAPIKey(arg))

CallValidateLatitude == Call("validateLatitude", validateLatitude(arg))

CallValidateLongitude == Call("validateLongitude", validateLongitude(arg))

CallGetTemperature == Call("getTemperature", getTemperature(arg))

CallCelsiusToFahrenheit == Call("celsiusToFahrenheit", celsiusToFahrenheit(arg))

\* main: listenAddress, err := GetHttpListenAddressAndPort()
CallGetHttpListenAddressAndPort ==
  Call("GetHttpListenAddressAndPort", GetHttpListenAddressAndPort(arg.rawAddr, arg.rawPort))

\* a call about to be made, with its operand (the environment for the two
\* functions that read it)
InitFn ==
  /\ env = "" /\ Idle
  /\ called = FALSE /\ ret = ""
  /\ \/ fn = "getAPIKey" /\ arg \in KeyInputs
     \/ fn = "validateLatitude" /\ arg \in RawInputs
     \/ fn = "validateLongitude" /\ arg \in RawInputs
     \/ fn = "getTemperature" /\ arg \in TemperatureInputs
     \/ fn = "celsiusToFahrenheit" /\ arg \in TemperatureInputs
     \/ fn = "GetHttpListenAddressAndPort"
          /\ arg \in {[rawAddr |-> a, rawPort |-> p] : a \in AddrInputs, p \in PortInputs}

NextFn ==
  \/ CallGetAPIKey
  \/ CallValidateLatitude
  \/ CallValidateLongitude
  \/ CallGetTemperature
  \/ CallCelsiusToFahrenheit
  \/ CallGetHttpListenAddressAndPort

SpecFn == InitFn /\ [][NextFn]_vars

\* ================================================================= claims
HasPrefix(s, prefix) == Len(s) >= Len(prefix) /\ SubSeq(s, 1, Len(prefix)) = prefix

Finished == route = "/weather" /\ pc = "done"

CredentialFails == getAPIKey(env).err # nil

\* C1: whenever loading the credential fails (unset, blank, or not 32 lowercase
\* hex characters), the /weather handler answers 500 and requests nothing from
\* the provider, whatever lat and lon are.
C1_CredentialFailureGives500 ==
  (route = "/weather" /\ CredentialFails)
    => /\ outbound = <<>>
       /\ pc = "done" => (w.written /\ w.status = StatusInternalServerError)

\* C2: with a valid credential and valid coordinates, a body that decodes but
\* has an empty or absent weather list makes the handler send a 500 response
\* and finish normally; it does not panic.
C2_EmptyConditionsFailExplicitly ==
  (Finished /\ ~CredentialFails /\ resp.kind = "response"
     /\ Decode(resp.body).err = nil /\ Len(Decode(resp.body).data.Weather) = 0)
    => (~panicked /\ w.written /\ w.status = StatusInternalServerError)

\* C3: no response of the /weather handler contains the API key, the upstream
\* request URL, or the raw transport or decoder error text.
C3_NoInternalsInResponse ==
  (route = "/weather" /\ w.written)
    => /\ apiKey # "" => ~Contains(w.body, apiKey)
       /\ url # "" => ~Contains(w.body, url)
       /\ ~Contains(w.body, TransportError)
       /\ ~Contains(w.body, Decode(Garbage).err)

\* C4: when the provider answers with a non-2xx status the handler responds
\* 500, whatever the body contains.
C4_Non2xxIsUpstreamError ==
  (Finished /\ resp.kind = "response" /\ resp.status \notin 200..299)
    => (w.written /\ w.status = StatusInternalServerError)

\* the float lies in the closed range [-bound, bound]
InClosedRange(f, bound) ==
  f.k = "num" /\ -bound * f.d <= Signed(f) /\ Signed(f) <= bound * f.d

ValidatorContract(raw, r, bound) ==
  LET p == ParseFloat(raw)
  IN  /\ (r.err = nil) <=> (p.err = nil /\ InClosedRange(p.f, bound))
      /\ r.err = nil => (r.v = p.f /\ InClosedRange(r.v, bound))
      /\ r.err # nil => r.v = Zero

\* C5: validateLatitude (bound 90) and validateLongitude (bound 180) succeed
\* exactly when raw parses to a value v with -bound <= v <= bound, returning v;
\* otherwise they return an error and 0.  A value returned without error lies
\* inside the closed range.
C5_ValidatorsAcceptExactlyClosedRange ==
  /\ (called /\ fn = "validateLatitude") => ValidatorContract(arg, ret, LatBound)
  /\ (called /\ fn = "validateLongitude") => ValidatorContract(arg, ret, LonBound)

\* the integers within one half of n/d
Nearest(n, d) == {k \in {n \div d, (n \div d) + 1} : 2 * k * d - 2 * n <= d /\ 2 * n - 2 * k * d <= d}

\* an integer as displayed; a negative value that rounds to zero shows as -0
Shown(k, n) == IF k = 0 /\ n < 0 THEN "-0" ELSE ToString(k)

\* C6: getTemperature yields exactly one label: Hot iff c > 24, Cold iff
\* c < 10, Moderate iff 10 <= c <= 24; the parenthesised values are c*9/5+32
\* and c, each rounded to an integer; 25 gives "Hot (77F / 25C)" and -5 gives
\* "Cold (23F / -5C)".
C6_ClassifiesByThresholds ==
  (called /\ fn = "getTemperature") =>
    LET c  == Signed(arg)
        d  == arg.d
        fN == 9 * c + 160 * d
        fD == 5 * d
    IN  /\ HasPrefix(ret, "Hot (") <=> c > 24 * d
        /\ HasPrefix(ret, "Cold (") <=> c < 10 * d
        /\ HasPrefix(ret, "Moderate (") <=> (10 * d <= c /\ c <= 24 * d)
        /\ \E label \in {"Hot", "Cold", "Moderate"}, f \in Nearest(fN, fD), t \in Nearest(c, d) :
             ret = label \o " (" \o Shown(f, fN) \o "F / " \o Shown(t, c) \o "C)"
        /\ c = 25 * d => ret = "Hot (77F / 25C)"
        /\ c = -5 * d => ret = "Cold (23F / -5C)"

\* the boundary 24 is classified, and is Moderate
C6_Witness ==
  called /\ fn = "getTemperature" /\ Signed(arg) = 24 * arg.d /\ ret = "Moderate (75F / 24C)"

IsPortNumber(s) == Atoi(s).err = nil /\ Atoi(s).n \in 1..MaxPort

\* C7: GetHttpListenAddressAndPort reports the first failure in the order
\* missing address, missing port, invalid IP, invalid port, each with its own
\* error; it returns "addr:port" with no error iff the address is a valid IP
\* literal and the port an integer in 1..65535, and "" on every error.
C7_ListenAddressChecksInOrder ==
  (called /\ fn = "GetHttpListenAddressAndPort") =>
    LET a      == arg.rawAddr
        p      == arg.rawPort
        blankA == TrimSpace(a) = ""
        blankP == TrimSpace(p) = ""
    IN  /\ blankA => ret.err = "missing IP address (HTTP_LISTEN_ADDR not set)"
        /\ (~blankA /\ blankP) => ret.err = "missing port (HTTP_LISTEN_PORT not set)"
        /\ (~blankA /\ ~blankP /\ ~ParseIP(a)) => HasPrefix(ret.err, "invalid IP address")
        /\ (~blankA /\ ~blankP /\ ParseIP(a) /\ ~IsPortNumber(p))
             => HasPrefix(ret.err, "invalid port number")
        /\ (ret.err = nil) <=> (ParseIP(a) /\ IsPortNumber(p))
        /\ ret.err = nil => ret.addr = a \o ":" \o ToString(Atoi(p).n)
        /\ ret.err # nil => ret.addr = ""

\* both variables are set and both are invalid: the address is reported
C7_Witness ==
  /\ called /\ fn = "GetHttpListenAddressAndPort"
  /\ TrimSpace(arg.rawAddr) # "" /\ ~ParseIP(arg.rawAddr)
  /\ TrimSpace(arg.rawPort) # "" /\ ~IsPortNumber(arg.rawPort)
  /\ HasPrefix(ret.err, "invalid IP address")

IsHex32(s) ==
  /\ Len(s) = 32
  /\ \A i \in 1..Len(s) : IsDigit(Char(s, i)) \/ Char(s, i) \in {"a", "b", "c", "d", "e", "f"}

\* C8: getAPIKey returns a nil error iff the trimmed value of
\* OPENWEATHER_API_KEY is exactly 32 characters of [a-f0-9], and then returns
\* the trimmed key; unset or blank fails with "OPENWEATHER_API_KEY is not set";
\* a non-empty value that does not match fails with a different error.
C8_KeyAcceptedIffHex32 ==
  (called /\ fn = "getAPIKey") =>
    LET t == TrimSpace(arg)
    IN  /\ (ret.err = nil) <=> IsHex32(t)
        /\ ret.err = nil => ret.key = t
        /\ t = "" => ret.err = "OPENWEATHER_API_KEY is not set"
        /\ (t # "" /\ ~IsHex32(t)) => ret.err \notin {nil, "OPENWEATHER_API_KEY is not set"}

\* a key with whitespace around it is accepted and returned trimmed
C8_Witness ==
  called /\ fn = "getAPIKey" /\ Len(arg) > KeyLen /\ ret.err = nil /\ Len(ret.key) = KeyLen

\* C9: a 200 response has exactly the three-line body, with the first upstream
\* description copied verbatim.
C9_BodyHasDescriptionVerbatim ==
  (Finished /\ w.written /\ w.status = StatusOK)
    => w.body = "Current Temperature:\n  Weather     : " \o weatherData.Weather[1].Description
                  \o "\n  Temperature : " \o getTemperature(weatherData.Temperature)

\* the first step of credential, latitude, longitude that fails
FirstFailure ==
  IF CredentialFails THEN "credential"
  ELSE IF validateLatitude(qLat).err # nil THEN "latitude"
  ELSE IF validateLongitude(qLon).err # nil THEN "longitude"
  ELSE "none"

IsPrefixOf(s, t) == Len(s) <= Len(t) /\ SubSeq(t, 1, Len(s)) = s

\* C10: the handler runs credential, latitude, longitude, fetch, classify in
\* that order; the first failing step alone determines the response (500 for
\* the credential, 400 "Invalid latitude", 400 "Invalid longitude"); the
\* provider is requested at most once, and only after the credential and both
\* coordinates have passed.
C10_FirstFailureDecides ==
  route = "/weather" =>
    /\ IsPrefixOf(steps, <<"credential", "latitude", "longitude", "fetch", "decode", "classify">>)
    /\ Len(outbound) <= 1
    /\ outbound # <<>> => FirstFailure = "none"
    /\ (pc = "done" /\ FirstFailure = "credential")
         => (w.written /\ w.status = StatusInternalServerError)
    /\ (pc = "done" /\ FirstFailure = "latitude")
         => w = httpError("Invalid latitude", StatusBadRequest)
    /\ (pc = "done" /\ FirstFailure = "longitude")
         => w = httpError("Invalid longitude", StatusBadRequest)

====
